---- MODULE Spec2Model ----
(***************************************************************************)
(* Model of merger.py: merge_contracts() and main().                       *)
(*                                                                         *)
(* Strings are sequences of one-character strings, so that os.path.join,   *)
(* str.endswith, fnmatch and the code-point order used by sorted() are     *)
(* computed rather than assumed.  The filesystem is a small fixed tree     *)
(* under the working directory; a canonical path is the sequence of its    *)
(* components.                                                             *)
(***************************************************************************)
EXTENDS Integers, Sequences, FiniteSets, TLC

\* ---------------------------------------------------------------- bounds
\* longest -i/--include list drawn for a run
MaxInc == 2
\* how many source files may be unreadable (permission / decoding error)
MaxUnreadable == 1

\* ------------------------------------------------------- string helpers
\* code points, the order Python compares str by
Ord ==
    "\n" :> 10 @@ " " :> 32 @@ "*" :> 42 @@ "," :> 44 @@ "-" :> 45 @@ "." :> 46 @@ "/" :> 47 @@ "0" :> 48 @@
    "1" :> 49 @@ "2" :> 50 @@ "3" :> 51 @@ "4" :> 52 @@ "5" :> 53 @@ "6" :> 54 @@ "7" :> 55 @@ "8" :> 56 @@
    "9" :> 57 @@ ":" :> 58 @@ "=" :> 61 @@ "?" :> 63 @@ "A" :> 65 @@ "B" :> 66 @@ "C" :> 67 @@ "D" :> 68 @@
    "E" :> 69 @@ "F" :> 70 @@ "G" :> 71 @@ "H" :> 72 @@ "I" :> 73 @@ "J" :> 74 @@ "K" :> 75 @@ "L" :> 76 @@
    "M" :> 77 @@ "N" :> 78 @@ "O" :> 79 @@ "P" :> 80 @@ "Q" :> 81 @@ "R" :> 82 @@ "S" :> 83 @@ "T" :> 84 @@
    "U" :> 85 @@ "V" :> 86 @@ "W" :> 87 @@ "X" :> 88 @@ "Y" :> 89 @@ "Z" :> 90 @@ "_" :> 95 @@ "a" :> 97 @@
    "b" :> 98 @@ "c" :> 99 @@ "d" :> 100 @@ "e" :> 101 @@ "f" :> 102 @@ "g" :> 103 @@ "h" :> 104 @@ "i" :> 105 @@
    "j" :> 106 @@ "k" :> 107 @@ "l" :> 108 @@ "m" :> 109 @@ "n" :> 110 @@ "o" :> 111 @@ "p" :> 112 @@ "q" :> 113 @@
    "r" :> 114 @@ "s" :> 115 @@ "t" :> 116 @@ "u" :> 117 @@ "v" :> 118 @@ "w" :> 119 @@ "x" :> 120 @@ "y" :> 121 @@
    "z" :> 122

RECURSIVE Concat(_)
Concat(ss) == IF ss = <<>> THEN <<>> ELSE Head(ss) \o Concat(Tail(ss))

\* str.startswith / str.endswith
StartsWith(s, p) == Len(p) <= Len(s) /\ SubSeq(s, 1, Len(p)) = p
EndsWith(s, e) == Len(e) <= Len(s) /\ SubSeq(s, Len(s) - Len(e) + 1, Len(s)) = e

\* Python's < on str: first differing code point, else the shorter string
StrLess(a, b) ==
    \E k \in 1..(Len(b)) :
        /\ k <= Len(a) + 1
        /\ \A i \in 1..(k-1) : a[i] = b[i]
        /\ IF k > Len(a) THEN TRUE ELSE Ord[a[k]] < Ord[b[k]]

\* sorted(list(set)) for a set of strings
RECURSIVE Sorted(_)
Sorted(S) == IF S = {} THEN <<>>
             ELSE LET m == CHOOSE x \in S : \A y \in S : x = y \/ StrLess(x, y)
                  IN <<m>> \o Sorted(S \ {m})

\* ', '.join(list)
RECURSIVE JoinWith(_, _)
JoinWith(sep, ss) == IF ss = <<>> THEN <<>>
                     ELSE IF Len(ss) = 1 THEN ss[1]
                     ELSE ss[1] \o sep \o JoinWith(sep, Tail(ss))

\* str.split('/')
RECURSIVE SplitSlash(_)
SplitSlash(s) ==
    IF \A i \in 1..Len(s) : s[i] # "/" THEN <<s>>
    ELSE LET k == CHOOSE i \in 1..Len(s) : s[i] = "/" /\ \A j \in 1..(i-1) : s[j] # "/"
         IN <<SubSeq(s, 1, k-1)>> \o SplitSlash(SubSeq(s, k+1, Len(s)))

\* os.path.join(a, b) on POSIX
Join(a, b) == IF StartsWith(b, <<"/">>) THEN b
              ELSE IF a = <<>> \/ EndsWith(a, <<"/">>) THEN a \o b
              ELSE a \o <<"/">> \o b

\* os.path.normpath of a relative path, as the sequence of its components:
\* empty and '.' components are dropped, '..' removes the one before it
RECURSIVE NormComps(_, _)
NormComps(cs, acc) ==
    IF cs = <<>> THEN acc
    ELSE IF Head(cs) = <<>> \/ Head(cs) = <<".">> THEN NormComps(Tail(cs), acc)
    ELSE IF Head(cs) = <<".",".">> /\ acc # <<>>
         THEN NormComps(Tail(cs), SubSeq(acc, 1, Len(acc) - 1))
    ELSE NormComps(Tail(cs), Append(acc, Head(cs)))
NormPath(p) == NormComps(SplitSlash(p), <<>>)

\* os.path.relpath(path, start) for a path below start
RelPath(p, start) ==
    LET pc_ == NormPath(p)
        sc == NormPath(start)
    IN JoinWith(<<"/">>, SubSeq(pc_, Len(sc) + 1, Len(pc_)))

\* fnmatch.fnmatch(name, pat) on POSIX: '*' any run, '?' any one character,
\* everything else literal (the patterns of the model hold no '[')
RECURSIVE GlobAt(_, _, _, _)
GlobAt(n, p, i, j) ==
    IF j > Len(p) THEN i > Len(n)
    ELSE IF p[j] = "*" THEN \E k \in i..(Len(n) + 1) : GlobAt(n, p, k, j + 1)
    ELSE /\ i <= Len(n)
         /\ (p[j] = "?" \/ p[j] = n[i])
         /\ GlobAt(n, p, i + 1, j + 1)
fnmatch(n, p) == GlobAt(n, p, 1, 1)


\* ------------------------------------------------------------ constants
\* the separator is '=' * 80
SepLen == 80
\* the listing of the report shows matched_files[:10]
ListLimit == 10
\* io.DEFAULT_BUFFER_SIZE: open(output_file, 'w') writes through a buffer of
\* this many bytes, so less than that is on disk before the file is closed
BufferSize == 8192

DefaultExtension == <<"s","o","l">>
DefaultExcludes == <<<<"n","o","d","e","_","m","o","d","u","l","e","s">>, <<".","g","i","t">>, <<"b","u","i","l","d">>,
                     <<"c","a","c","h","e">>, <<"o","u","t">>, <<"a","r","t","i","f","a","c","t","s">>>>

\* ----------------------------------------------------------- filesystem
\* The tree under the working directory, by canonical component sequences:
\*   s/a.sol  s/n.txt  s/core/x.sol  s/core/u.SOL  s/build/c.sol
\*   s/lib/y.sol  s/lib/aTest/t.sol
dS == <<"s">>
dCore == <<"c","o","r","e">>
dLib == <<"l","i","b">>
dBuild == <<"b","u","i","l","d">>
dTest == <<"a","T","e","s","t">>
outName == <<"m",".","s","o","l">>

Dirs == { <<dS>>, <<dS, dCore>>, <<dS, dLib>>, <<dS, dLib, dTest>>, <<dS, dBuild>> }

InitialContent ==
    <<dS, <<"a",".","s","o","l">>>>        :> <<"A", "\n">> @@
    <<dS, <<"n",".","t","x","t">>>>        :> <<"N">> @@
    <<dS, dCore, <<"x",".","s","o","l">>>> :> <<>> @@
    <<dS, dCore, <<"u",".","S","O","L">>>> :> <<"U", "\n">> @@
    <<dS, dBuild, <<"c",".","s","o","l">>>> :> <<"C", "\n">> @@
    <<dS, dLib, <<"y",".","s","o","l">>>>  :> <<"Y", "\n", "\n">> @@
    <<dS, dLib, dTest, <<"t",".","s","o","l">>>> :> <<"T">>

SourceFiles == DOMAIN InitialContent
\* where the output file may be: beside the source directory, or inside it
OutputFiles == { <<outName>>, <<dS, outName>> }
FileUniverse == SourceFiles \cup OutputFiles
OldOutput == <<"o", "l", "d", "\n">>
\* the source files whose read may raise (permission denied, not UTF-8)
FailingReads == { <<dS, <<"a",".","s","o","l">>>>, <<dS, dCore, <<"x",".","s","o","l">>>>,
                  <<dS, dBuild, <<"c",".","s","o","l">>>> }

NoFile == [exists |-> FALSE, content |-> <<>>]
File(c) == [exists |-> TRUE, content |-> c]

\* the command lines drawn for a run
SrcDirArgs == { <<"s">>, <<"q">>, <<"s","/","a",".","s","o","l">> }
OutputArgs == { <<"m",".","s","o","l">>, <<"s","/","m",".","s","o","l">> }
ExtArgs == { <<>>, <<<<".","s","o","l">>, <<"t","x","t">>>>, <<<<"t","s">>>> }
ExcludeArgs == { <<>>, <<<<"*","T","e","s","t">>>> }
IncludeRoots == { <<"c","o","r","e">>, <<".","/","c","o","r","e">>, <<"l","i","b","/","a","T","e","s","t">>, <<"b","u","i","l","d">>, <<"n","o","p","e">> }
IncludeArgs == UNION { [1..n -> IncludeRoots] : n \in 0..MaxInc }

VARIABLES
    args,               \* argv as parsed: src_dir, output_file, extensions, exclude, include
    fs,                 \* canonical path -> file on disk
    unreadable,         \* files whose open/read raises
    pc,                 \* "main", "scan", "write", "exit"
    extensions,
    exclude_patterns,
    search_paths,       \* the part of search_paths the for loop has not reached
    matched_files_set,
    matched_files,
    idx,                \* position of the write loop in matched_files
    outfile,            \* everything written to the open output file
    stdout,             \* what print() has emitted
    exit_status,        \* -1 while running
    merged,             \* the (file_path, content) pairs whose block was written
    run,                \* 1 for the first invocation, 2 for the repetition
    fs_start,           \* the disk when this invocation started
    prev_out            \* the output file as the first invocation left it

vars == <<args, fs, unreadable, pc, extensions, exclude_patterns, search_paths,
          matched_files_set, matched_files, idx, outfile, stdout, exit_status,
          merged, run, fs_start, prev_out>>

locals == <<extensions, exclude_patterns, search_paths, matched_files_set,
            matched_files, idx, outfile, merged>>

Msg(k, n, t) == [kind |-> k, n |-> n, text |-> t]

isdir(f, p) == NormPath(p) \in Dirs
OutPath == NormPath(args.output_file)

Init ==
    /\ args \in [src_dir : SrcDirArgs, output_file : OutputArgs, extensions : ExtArgs,
                 exclude : ExcludeArgs, include : IncludeArgs]
    /\ \E old \in BOOLEAN :
         fs = [p \in FileUniverse |->
                 IF p \in SourceFiles THEN File(InitialContent[p])
                 ELSE IF old /\ p = NormPath(args.output_file) THEN File(OldOutput)
                 ELSE NoFile]
    /\ unreadable \in { U \in SUBSET FailingReads : Cardinality(U) <= MaxUnreadable }
    \* a run that stops at the validation of src_dir looks at nothing else
    /\ NormPath(args.src_dir) \notin Dirs => args.include = <<>> /\ unreadable = {}
    /\ pc = "main"
    /\ extensions = <<>>
    /\ exclude_patterns = <<>>
    /\ search_paths = <<>>
    /\ matched_files_set = {}
    /\ matched_files = <<>>
    /\ idx = 1
    /\ outfile = <<>>
    /\ stdout = <<>>
    /\ exit_status = -1
    /\ merged = <<>>
    /\ run = 1
    /\ fs_start = fs
    /\ prev_out = NoFile

\* ------------------------------------------------------------- main()
\* main(), lines 119-132 without the validation of the source directory
MainBadDirNoCheck ==
    /\ pc = "main"
    /\ ~ isdir(fs, args.src_dir)
    /\ LET given == IF args.extensions # <<>> THEN args.extensions ELSE <<DefaultExtension>>
       IN extensions' = [i \in DOMAIN given |->
                           IF StartsWith(given[i], <<".">>) THEN given[i]
                           ELSE <<".">> \o given[i]]
    /\ exclude_patterns' = DefaultExcludes \o args.exclude
    /\ search_paths' = IF args.include # <<>>
                       THEN [i \in DOMAIN args.include |-> Join(args.src_dir, args.include[i])]
                       ELSE <<args.src_dir>>
    /\ matched_files_set' = {}
    /\ pc' = "scan"
    /\ UNCHANGED <<args, fs, unreadable, matched_files, idx, outfile, stdout,
                   exit_status, merged, run, fs_start, prev_out>>
\* main(), lines 119-122: the source directory is validated first
MainBadDir ==
    /\ pc = "main"
    /\ ~ isdir(fs, args.src_dir)
    /\ stdout' = Append(stdout, Msg("error", 0, args.src_dir))
    /\ exit_status' = 1
    /\ pc' = "exit"
    /\ UNCHANGED <<args, fs, unreadable, locals, run, fs_start, prev_out>>

\* main(), lines 124-132, and merge_contracts(), lines 11-27
MainOk ==
    /\ pc = "main"
    /\ isdir(fs, args.src_dir)
    /\ LET given == IF args.extensions # <<>> THEN args.extensions ELSE <<DefaultExtension>>
       IN extensions' = [i \in DOMAIN given |->
                           IF StartsWith(given[i], <<".">>) THEN given[i]
                           ELSE <<".">> \o given[i]]
    /\ exclude_patterns' = DefaultExcludes \o args.exclude
    /\ search_paths' = IF args.include # <<>>
                       THEN [i \in DOMAIN args.include |-> Join(args.src_dir, args.include[i])]
                       ELSE <<args.src_dir>>
    /\ matched_files_set' = {}
    /\ pc' = "scan"
    /\ UNCHANGED <<args, fs, unreadable, matched_files, idx, outfile, stdout,
                   exit_status, merged, run, fs_start, prev_out>>

\* ---------------------------------------------------- merge_contracts()
\* line 39: any(file.endswith(ext) for ext in extensions)
FileMatchesAnyCase(file, exts) ==
    \E i \in DOMAIN exts :
        /\ Len(exts[i]) <= Len(file)
        /\ LET t == SubSeq(file, Len(file) - Len(exts[i]) + 1, Len(file))
               Low(c) == IF Ord[c] >= 65 /\ Ord[c] <= 90 THEN Ord[c] + 32 ELSE Ord[c]
           IN \A k \in 1..Len(t) : Low(t[k]) = Low(exts[i][k])
FileMatches(file, exts) == \E i \in DOMAIN exts : EndsWith(file, exts[i])

\* line 36: a child directory is kept unless its name matches a pattern
Kept(d, excl) == ~ \E i \in DOMAIN excl : fnmatch(d, excl[i])

\* lines 34-41: os.walk(top) with the pruning of dirs[:]; the result is the
\* set of os.path.join(root, file) strings added to matched_files_set
RECURSIVE Walk(_, _, _, _)
Walk(f, top, excl, exts) ==
    LET d == NormPath(top)
        files == { p[Len(p)] : p \in { q \in DOMAIN f :
                       f[q].exists /\ SubSeq(q, 1, Len(q) - 1) = d } }
        dirs == { p[Len(p)] : p \in { q \in Dirs :
                       Len(q) = Len(d) + 1 /\ SubSeq(q, 1, Len(d)) = d } }
    IN { Join(top, file) : file \in { x \in files : FileMatches(x, exts) } }
       \cup UNION { Walk(f, Join(top, dn), excl, exts) : dn \in { x \in dirs : Kept(x, excl) } }

\* lines 29-32: a search path that is not a directory is skipped with a warning
SkipPath ==
    /\ pc = "scan"
    /\ search_paths # <<>>
    /\ ~ isdir(fs, Head(search_paths))
    /\ stdout' = Append(stdout, Msg("warn_path", 0, Head(search_paths)))
    /\ search_paths' = Tail(search_paths)
    /\ UNCHANGED <<args, fs, unreadable, pc, extensions, exclude_patterns,
                   matched_files_set, matched_files, idx, outfile, exit_status,
                   merged, run, fs_start, prev_out>>

\* lines 29-41: a search path that is a directory is walked
WalkPath ==
    /\ pc = "scan"
    /\ search_paths # <<>>
    /\ isdir(fs, Head(search_paths))
    /\ matched_files_set' = matched_files_set \cup
           Walk(fs, Head(search_paths), exclude_patterns, extensions)
    /\ search_paths' = Tail(search_paths)
    /\ UNCHANGED <<args, fs, unreadable, pc, extensions, exclude_patterns,
                   matched_files, idx, outfile, stdout, exit_status,
                   merged, run, fs_start, prev_out>>

\* lines 43-48 with the output opened before the emptiness test
NoFilesTouchingOutput ==
    /\ pc = "scan"
    /\ search_paths = <<>>
    /\ Sorted(matched_files_set) = <<>>
    /\ fs' = [fs EXCEPT ![OutPath] = File(<<>>)]
    /\ stdout' = Append(stdout, Msg("no_files", 0, JoinWith(<<",", " ">>, extensions)))
    /\ exit_status' = 0
    /\ pc' = "exit"
    /\ UNCHANGED <<args, unreadable, locals, run, fs_start, prev_out>>
\* lines 43-48: nothing matched; the message is printed and the function returns
NoFiles ==
    /\ pc = "scan"
    /\ search_paths = <<>>
    /\ Sorted(matched_files_set) = <<>>
    /\ stdout' = Append(stdout, Msg("no_files", 0, JoinWith(<<",", " ">>, extensions)))
    /\ exit_status' = 0
    /\ pc' = "exit"
    /\ UNCHANGED <<args, fs, unreadable, locals, run, fs_start, prev_out>>

\* what of the open output file is on disk: whole buffers only
Flushed(buf) == SubSeq(buf, 1, (Len(buf) \div BufferSize) * BufferSize)

\* lines 52-53: the two header lines
Header(src_dir, exts) ==
    <<"/","/"," ","M","e","r","g","e","d"," ","s","o","u","r","c","e"," ","f","i","l","e","s"," ","f","r","o","m"," ">> \o src_dir \o <<"\n">> \o
    <<"/","/"," ","E","x","t","e","n","s","i","o","n","s",":"," ">> \o JoinWith(<<",", " ">>, exts) \o <<"\n">>

\* lines 43-53: the matches are sorted, the output is opened for writing
\* (created or truncated) and the header is written
OpenOutput ==
    /\ pc = "scan"
    /\ search_paths = <<>>
    /\ Sorted(matched_files_set) # <<>>
    /\ matched_files' = Sorted(matched_files_set)
    /\ outfile' = Header(args.src_dir, extensions)
    /\ fs' = [fs EXCEPT ![OutPath] = File(Flushed(outfile'))]
    /\ idx' = 1
    /\ merged' = <<>>
    /\ pc' = "write"
    /\ UNCHANGED <<args, unreadable, extensions, exclude_patterns, search_paths,
                   matched_files_set, stdout, exit_status, run, fs_start, prev_out>>

\* '=' * 80
Sep == [i \in 1..SepLen |-> "="]

\* lines 65-71 without the newline appended after the content
FileBlockNoNewline(rel_path, content) ==
    <<"\n","/","/"," ">> \o Sep \o <<"\n">> \o
    <<"/","/"," ","S","o","u","r","c","e",":"," ">> \o rel_path \o <<"\n">> \o
    <<"/","/"," ">> \o Sep \o <<"\n", "\n">> \o
    content
\* lines 65-71: what is written for one file
FileBlock(rel_path, content) ==
    <<"\n","/","/"," ">> \o Sep \o <<"\n">> \o
    <<"/","/"," ","S","o","u","r","c","e",":"," ">> \o rel_path \o <<"\n">> \o
    <<"/","/"," ">> \o Sep \o <<"\n", "\n">> \o
    content \o
    <<"\n">>

\* line 61-62: open(file_path).read() succeeds
CanRead(f, bad, p) == NormPath(p) \in DOMAIN f /\ f[NormPath(p)].exists /\ NormPath(p) \notin bad

\* lines 55-71: the file is read and its block written
WriteFile ==
    /\ pc = "write"
    /\ idx <= Len(matched_files)
    /\ CanRead(fs, unreadable, matched_files[idx])
    /\ LET file_path == matched_files[idx]
           rel_path == RelPath(file_path, args.src_dir)
           content == fs[NormPath(file_path)].content
       IN /\ outfile' = outfile \o FileBlock(rel_path, content)
          /\ merged' = Append(merged, [path |-> file_path, content |-> content])
    /\ fs' = [fs EXCEPT ![OutPath] = File(Flushed(outfile'))]
    /\ idx' = idx + 1
    /\ UNCHANGED <<args, unreadable, pc, extensions, exclude_patterns, search_paths,
                   matched_files_set, matched_files, stdout, exit_status, run,
                   fs_start, prev_out>>

\* lines 59-62 with the exception left uncaught: the with block closes the
\* output and the traceback ends the process
SkipFileUncaught ==
    /\ pc = "write"
    /\ idx <= Len(matched_files)
    /\ ~ CanRead(fs, unreadable, matched_files[idx])
    /\ fs' = [fs EXCEPT ![OutPath] = File(outfile)]
    /\ exit_status' = 1
    /\ pc' = "exit"
    /\ UNCHANGED <<args, unreadable, locals, stdout, run, fs_start, prev_out>>
\* lines 59-62, 72-73: the read raises; a warning is printed and the loop goes on
SkipFile ==
    /\ pc = "write"
    /\ idx <= Len(matched_files)
    /\ ~ CanRead(fs, unreadable, matched_files[idx])
    /\ stdout' = Append(stdout, Msg("warn_read", 0, RelPath(matched_files[idx], args.src_dir)))
    /\ idx' = idx + 1
    /\ UNCHANGED <<args, fs, unreadable, pc, extensions, exclude_patterns, search_paths,
                   matched_files_set, matched_files, outfile, exit_status, merged,
                   run, fs_start, prev_out>>

\* lines 76-83, after the with block has closed the output: the summary
Report ==
    /\ pc = "write"
    /\ idx > Len(matched_files)
    /\ fs' = [fs EXCEPT ![OutPath] = File(outfile)]
    /\ LET total_size == Len(outfile)
           n == Len(matched_files)
           shown == IF n > ListLimit THEN ListLimit ELSE n
       IN stdout' = stdout \o
            << Msg("success", n, args.output_file), Msg("size", total_size, <<>>),
               Msg("merged_files", 0, <<>>) >> \o
            [i \in 1..shown |-> Msg("item", 0, RelPath(matched_files[i], args.src_dir))] \o
            (IF n > ListLimit THEN << Msg("more", n - ListLimit, <<>>) >> ELSE <<>>)
    /\ exit_status' = 0
    /\ pc' = "exit"
    /\ UNCHANGED <<args, unreadable, locals, run, fs_start, prev_out>>

\* lines 134-135: the same command line is run a second time
Rerun ==
    /\ pc = "exit"
    /\ run = 1
    /\ run' = 2
    /\ prev_out' = fs[OutPath]
    /\ fs_start' = fs
    /\ pc' = "main"
    /\ extensions' = <<>>
    /\ exclude_patterns' = <<>>
    /\ search_paths' = <<>>
    /\ matched_files_set' = {}
    /\ matched_files' = <<>>
    /\ idx' = 1
    /\ outfile' = <<>>
    /\ stdout' = <<>>
    /\ exit_status' = -1
    /\ merged' = <<>>
    /\ UNCHANGED <<args, fs, unreadable>>

Next ==
    \/ MainBadDir
    \/ MainOk
    \/ SkipPath
    \/ WalkPath
    \/ NoFiles
    \/ OpenOutput
    \/ WriteFile
    \/ SkipFile
    \/ Report
    \/ Rerun

Spec == Init /\ [][Next]_vars


\* ------------------------------------------------------------ properties
\* the run wrote an output file and printed its success line
Produced == pc = "exit" /\ \E i \in DOMAIN stdout : stdout[i].kind = "success"

\* the command line's patterns and extensions, as the documentation states them
GivenExcludes == DefaultExcludes \o args.exclude
GivenExtensions ==
    LET given == IF args.extensions # <<>> THEN args.extensions ELSE <<DefaultExtension>>
    IN [i \in DOMAIN given |-> IF given[i][1] = "." THEN given[i] ELSE <<".">> \o given[i]]
GivenRoots ==
    IF args.include = <<>> THEN <<NormPath(args.src_dir)>>
    ELSE [i \in DOMAIN args.include |-> NormPath(args.src_dir) \o NormPath(args.include[i])]

BaseName(p) == LET c == SplitSlash(p) IN c[Len(c)]
DirComps(p) == LET c == SplitSlash(p) IN SubSeq(c, 1, Len(c) - 1)
IsPrefix(a, b) == Len(a) <= Len(b) /\ SubSeq(b, 1, Len(a)) = a
\* os.path.abspath, the working directory being /w
AbsPath(p) == <<"/", "w", "/">> \o JoinWith(<<"/">>, NormPath(p))
Readable(p) == NormPath(p) \notin unreadable
MergedPaths == [i \in DOMAIN merged |-> merged[i].path]

\* C1: no file with a banner in the output has, in its path, a directory
\* component whose name matches an exclusion pattern, also when that
\* directory is an include root or lies on the path of one.
C1_NoExcludedDirInOutput ==
    \A i \in DOMAIN merged :
        \A k \in DOMAIN DirComps(merged[i].path) :
            \A j \in DOMAIN GivenExcludes :
                ~ fnmatch(DirComps(merged[i].path)[k], GivenExcludes[j])

\* C2: every file with a banner exists in a traversed tree and its name ends,
\* case-sensitively, in one of the normalized extensions.
C2_OutputFilesMatchExtension ==
    \A i \in DOMAIN merged :
        LET p == merged[i].path IN
        /\ NormPath(p) \in FileUniverse
        /\ fs[NormPath(p)].exists
        /\ \E r \in DOMAIN GivenRoots : GivenRoots[r] \in Dirs /\ IsPrefix(GivenRoots[r], NormPath(p))
        /\ \E e \in DOMAIN GivenExtensions :
               /\ GivenExtensions[e][1] = "."
               /\ EndsWith(BaseName(p), GivenExtensions[e])
C2_Witness ==
    /\ Produced
    /\ args.extensions = <<<<".","s","o","l">>, <<"t","x","t">>>>
    /\ args.include = <<>>
    /\ \E i \in DOMAIN merged : BaseName(merged[i].path) = <<"n",".","t","x","t">>
    /\ \E i \in DOMAIN merged : BaseName(merged[i].path) = <<"x",".","s","o","l">>
    /\ \A i \in DOMAIN merged : BaseName(merged[i].path) # <<"u",".","S","O","L">>

\* C3: with overlapping include roots each physical file has one banner and
\* one copy of its content in the output.
C3_EachFileOnce ==
    \A i, j \in DOMAIN merged :
        i # j => NormPath(merged[i].path) # NormPath(merged[j].path)

\* C4: the banners of a produced output are in strictly increasing order of
\* the files' absolute paths.
C4_BannersSortedByAbsPath ==
    Produced =>
        \A i \in 1..(Len(merged) - 1) :
            StrLess(AbsPath(merged[i].path), AbsPath(merged[i + 1].path))

\* C5: the second of two runs with the same arguments leaves the output file
\* byte-identical to what the first left.
C5_SecondRunIdentical ==
    (run = 2 /\ pc = "exit") => fs[OutPath] = prev_out

\* the layout of one file's block and of the whole output, with a blank line
\* in front of every banner
C9_Delimiter == <<"/","/"," ">> \o [i \in 1..80 |-> "="] \o <<"\n">>
C9_Block(rel, content) ==
    <<"\n">> \o C9_Delimiter \o <<"/","/"," ","S","o","u","r","c","e",":"," ">> \o rel \o <<"\n">> \o C9_Delimiter \o
    <<"\n">> \o content \o <<"\n">>
C9_HeaderLines ==
    <<"/","/"," ","M","e","r","g","e","d"," ","s","o","u","r","c","e"," ","f","i","l","e","s"," ","f","r","o","m"," ">> \o args.src_dir \o <<"\n">> \o
    <<"/","/"," ","E","x","t","e","n","s","i","o","n","s",":"," ">> \o JoinWith(<<",", " ">>, GivenExtensions) \o <<"\n">>
C9_Layout(ms) ==
    C9_HeaderLines \o
    Concat([i \in DOMAIN ms |-> C9_Block(RelPath(ms[i].path, args.src_dir), ms[i].content)])

\* C6: a failing read does not abort the merge: the run ends with status 0, a
\* warning names the file, the file contributes nothing to the output, and the
\* readable matched files are all written, in order, with their full content.
C6_ReadFailureSkipsOnlyThatFile ==
    (pc = "exit" /\ isdir(fs, args.src_dir) /\ matched_files_set # {}) =>
        /\ Produced
        /\ exit_status = 0
        /\ MergedPaths = SelectSeq(matched_files, Readable)
        /\ \A i \in DOMAIN matched_files :
               ~ Readable(matched_files[i]) =>
                   \E m \in DOMAIN stdout :
                       /\ stdout[m].kind = "warn_read"
                       /\ stdout[m].text = RelPath(matched_files[i], args.src_dir)
        /\ \A i \in DOMAIN merged :
               NormPath(merged[i].path) # OutPath =>
                   merged[i].content = InitialContent[NormPath(merged[i].path)]
        /\ fs[OutPath] = File(C9_Layout(merged))
C6_Witness ==
    /\ Produced
    /\ \E i, j \in DOMAIN matched_files :
           /\ i < j
           /\ ~ Readable(matched_files[i])
           /\ Readable(matched_files[j])
    /\ \E m \in DOMAIN stdout : stdout[m].kind = "warn_read"
    /\ Len(merged) >= 2

\* C7: when nothing matches, the run prints the 'no files found' message,
\* writes and reports nothing, exits with status 0 and leaves the disk, the
\* output path included, as it was.
C7_NoMatchLeavesOutputUntouched ==
    (pc = "exit" /\ isdir(fs, args.src_dir) /\ matched_files_set = {}) =>
        /\ exit_status = 0
        /\ stdout # <<>>
        /\ stdout[Len(stdout)].kind = "no_files"
        /\ \A i \in DOMAIN stdout : stdout[i].kind \in {"no_files", "warn_path"}
        /\ outfile = <<>>
        /\ fs = fs_start
C7_Witness ==
    /\ pc = "exit"
    /\ isdir(fs, args.src_dir)
    /\ args.include = <<<<"n","o","p","e">>, <<"n","o","p","e">>>>
    /\ matched_files_set = {}
    /\ exit_status = 0
    /\ fs[OutPath] = File(OldOutput)

\* C8: when the source directory does not exist or is not a directory, the
\* process prints an error and exits non-zero before any traversal or write;
\* the disk, the output path included, is as it was.
C8_BadSourceDirExitsNonZero ==
    ~ isdir(fs, args.src_dir) =>
        /\ pc \in {"main", "exit"}
        /\ pc = "exit" =>
             /\ exit_status > 0
             /\ stdout = << Msg("error", 0, args.src_dir) >>
             /\ matched_files_set = {}
             /\ outfile = <<>>
             /\ fs = fs_start
C8_Witness ==
    /\ pc = "exit"
    /\ args.src_dir = <<"s","/","a",".","s","o","l">>
    /\ exit_status = 1
    /\ fs[OutPath] = File(OldOutput)

\* C9 as claimed: after the two header lines the blocks follow directly, each
\* being delimiter, Source line, delimiter, blank line, content, newline.
C9_LayoutWithoutBlankLine ==
    Produced =>
        fs[OutPath].content =
            C9_HeaderLines \o
            Concat([i \in DOMAIN merged |->
                      C9_Delimiter \o <<"/","/"," ","S","o","u","r","c","e",":"," ">> \o RelPath(merged[i].path, args.src_dir) \o
                      <<"\n">> \o C9_Delimiter \o <<"\n">> \o merged[i].content \o <<"\n">>])

\* C9 as amended: the output is the two header lines followed, for each merged
\* file in order, by an empty line, the delimiter line, the Source line,
\* the delimiter line, an empty line, the content verbatim and a newline.
C9_LayoutWithBlankLine ==
    Produced =>
        /\ fs[OutPath].exists
        /\ fs[OutPath].content = C9_Layout(merged)
        /\ Cardinality({i \in DOMAIN C9_HeaderLines : C9_HeaderLines[i] = "\n"}) = 2
C9_Witness ==
    /\ Produced
    /\ Len(merged) >= 2
    /\ \E i \in DOMAIN merged : merged[i].content = <<"N">>
    /\ \E i \in DOMAIN merged : merged[i].content = <<>>

\* C10: the number in the success line is the number of files whose block is
\* in the output file.
C10_SuccessCountIsMergedCount ==
    \A i \in DOMAIN stdout :
        stdout[i].kind = "success" => stdout[i].n = Len(merged)

====
